---------------------------- MODULE Spec2Model ----------------------------
(***************************************************************************)
(* Visibility-graph construction of the pathfinder (src/graph/mod.rs):     *)
(* find_origin, populate_nodes, find_path, valid_path, insert_edge and     *)
(* build_graph.                                                            *)
(*                                                                         *)
(* Numbers.  f32/f64 values are modelled on grids:                         *)
(*   - angles, latitudes and longitudes are integers in units of pi/12     *)
(*     (PI = 12);                                                          *)
(*   - planar coordinates and distances are fixed-point integers with      *)
(*     Scale steps per unit; radii and heights are whole units;            *)
(*   - NaN is a distinguished value that every arithmetic operation        *)
(*     propagates and every comparison answers FALSE on.                   *)
(***************************************************************************)
EXTENDS Integers, Sequences, FiniteSets, TLC

VARIABLES flyzones, obstacles, buffer, origin, nodes, vertices, inserted,
          num_vertices, pc, i, j, builds, start_count, fp, vp

vars == <<flyzones, obstacles, buffer, origin, nodes, vertices, inserted,
          num_vertices, pc, i, j, builds, start_count, fp, vp>>

---------------------------------------------------------------------------
(* Bounds of the model *)

\* longest obstacle list a configuration holds
MaxObstacles == 3
\* number of build_graph calls made on one Pathfinder
MaxBuilds == 2

---------------------------------------------------------------------------
(* Number representation *)

\* std::f32::consts::PI in angle units (one unit = pi/12)
PI == 12
\* const MAX_RADIAN = 2 * PI
MAX_RADIAN == 2 * PI
\* fixed-point steps per unit length of an f32 coordinate
Scale == 100
\* the f32 NaN
NaN == -999999

IsNaN(x) == x = NaN
FAdd(x, y) == IF IsNaN(x) \/ IsNaN(y) THEN NaN ELSE x + y
FSub(x, y) == IF IsNaN(x) \/ IsNaN(y) THEN NaN ELSE x - y
FNeg(x) == IF IsNaN(x) THEN NaN ELSE 0 - x
Abs(x) == IF x < 0 THEN 0 - x ELSE x

\* floor of the square root, by bisection on lo..hi
RECURSIVE SqrtIter(_, _, _)
SqrtIter(n, lo, hi) ==
    IF lo >= hi THEN lo
    ELSE LET mid == (lo + hi + 1) \div 2
         IN  IF mid * mid <= n THEN SqrtIter(n, mid, hi)
             ELSE SqrtIter(n, lo, mid - 1)
ISqrt(n) == SqrtIter(n, 0, 8191)

\* cos(k * pi/12) for k = 0..6, in thousandths
CosMilli == <<1000, 966, 866, 707, 500, 259, 0>>

\* cos of an angle (any integer number of units), in Scale steps
Cos(k) ==
    LET m == k % (2 * PI)
        q == IF m > PI THEN 2 * PI - m ELSE m
        v == IF q <= 6 THEN CosMilli[q + 1] ELSE 0 - CosMilli[(PI - q) + 1]
    IN  IF v >= 0 THEN (v * Scale) \div 1000 ELSE 0 - (((0 - v) * Scale) \div 1000)
Sin(k) == Cos(k - 6)

\* f32::acos(num / den) for den >= 0: NaN when the quotient is outside [-1, 1]
\* or undefined (x/0 is +-inf or NaN); otherwise the nearest grid angle
Acos(num, den) ==
    IF den = 0 \/ IsNaN(num) \/ IsNaN(den) \/ Abs(num) > den THEN NaN
    ELSE LET err(k) == Abs(CosMilli[k + 1] * den - Abs(num) * 1000)
             a == CHOOSE k \in 0..6 : \A k2 \in 0..6 :
                      err(k) < err(k2) \/ (err(k) = err(k2) /\ k <= k2)
         IN  IF num >= 0 THEN a ELSE PI - a

\* f32::atan2(dy, dx), a grid angle in (-PI, PI]; atan2(0, 0) = 0
Atan2(dy, dx) ==
    IF dy = 0 THEN (IF dx >= 0 THEN 0 ELSE PI)
    ELSE LET a == Acos(dx, ISqrt(dx * dx + dy * dy))
         IN  IF dy > 0 THEN a ELSE 0 - a

---------------------------------------------------------------------------
(* Helpers of the graph module that live outside graph/mod.rs *)

\* Point::from_location: planar offsets of a location from the origin
from_location(loc, org) ==
    [x |-> (loc.lon - org.lon) * Scale, y |-> (loc.lat - org.lat) * Scale, z |-> 0]

NaNPoint(p) == IsNaN(p.x) \/ IsNaN(p.y)

\* Point::distance: horizontal distance of two points
distance(p, q) ==
    IF NaNPoint(p) \/ NaNPoint(q) THEN NaN
    ELSE ISqrt((q.x - p.x) * (q.x - p.x) + (q.y - p.y) * (q.y - p.y))

\* Node::from_obstacle: the circular buffer around an obstacle
from_obstacle(obs, org, buf) ==
    [origin |-> from_location(obs, org), radius |-> obs.radius + buf,
     height |-> obs.height]

\* Node::to_point: the point of the node's circle at an angle
to_point(node, angle) ==
    IF IsNaN(angle) THEN [x |-> NaN, y |-> NaN, z |-> node.height]
    ELSE [x |-> node.origin.x + node.radius * Cos(angle),
          y |-> node.origin.y + node.radius * Sin(angle),
          z |-> node.height]

\* util::normalize_angle: into [0, 2 pi) when positive, else into (-2 pi, 0]
normalize_angle(positive, angle) ==
    IF IsNaN(angle) THEN NaN
    ELSE IF positive THEN angle % (2 * PI)
    ELSE 0 - ((0 - angle) % (2 * PI))

\* util::reverse_polarity: the same direction in the range of the other sign
reverse_polarity(alpha) ==
    IF IsNaN(alpha) THEN NaN
    ELSE IF alpha < 0 THEN alpha + 2 * PI
    ELSE alpha - 2 * PI

Cross(p, q, r) == (q.x - p.x) * (r.y - p.y) - (q.y - p.y) * (r.x - p.x)
Sign(n) == IF n > 0 THEN 1 ELSE IF n < 0 THEN -1 ELSE 0
Between(p, q, r) ==
    /\ (IF p.x <= q.x THEN p.x <= r.x /\ r.x <= q.x ELSE q.x <= r.x /\ r.x <= p.x)
    /\ (IF p.y <= q.y THEN p.y <= r.y /\ r.y <= q.y ELSE q.y <= r.y /\ r.y <= p.y)

\* util::intersect: 2D segment-segment intersection of a-b with c-d
intersect(a, b, c, d) ==
    IF NaNPoint(a) \/ NaNPoint(b) \/ NaNPoint(c) \/ NaNPoint(d) THEN FALSE
    ELSE LET o1 == Sign(Cross(a, b, c))
             o2 == Sign(Cross(a, b, d))
             o3 == Sign(Cross(c, d, a))
             o4 == Sign(Cross(c, d, b))
         IN  \/ o1 # o2 /\ o3 # o4
             \/ o1 = 0 /\ Between(a, b, c)
             \/ o2 = 0 /\ Between(a, b, d)
             \/ o3 = 0 /\ Between(c, d, a)
             \/ o4 = 0 /\ Between(c, d, b)

\* which of the two points where the line a-b meets the circle (c, R) lie on
\* the segment a-b, by the perpendicular distance d of c from the line
circle_hits(c, R, a, b) ==
    IF NaNPoint(a) \/ NaNPoint(b) THEN <<FALSE, FALSE>>
    ELSE LET len == distance(a, b)
         IN  IF len = 0 THEN <<FALSE, FALSE>>
             ELSE LET d == Abs(Cross(a, b, c)) \div len
                      t == ((c.x - a.x) * (b.x - a.x) + (c.y - a.y) * (b.y - a.y)) \div len
                  IN  IF d > R THEN <<FALSE, FALSE>>
                      ELSE IF d = R THEN <<0 <= t /\ t <= len, FALSE>>
                      ELSE LET h == ISqrt(R * R - d * d)
                           IN  <<0 <= t - h /\ t - h <= len, 0 <= t + h /\ t + h <= len>>

\* util::perpendicular_intersect: the two intersections of the segment a-b with
\* the obstacle's circle (Option<Point> as a flag: TRUE for Some)
perpendicular_intersect(org, a, b, obstacle) ==
    circle_hits(from_location(obstacle, org), obstacle.radius * Scale, a, b)

\* Vertex::new: the vertex takes the counter's value as its index
Vertex_new(num, node, angle, connection) ==
    [index |-> num, node |-> node, angle |-> angle, connection |-> connection,
     sentinel |-> FALSE]

\* Vertex::new_sentinel: a bare vertex marking the end of path hugging
Vertex_new_sentinel(num, node, angle) ==
    [index |-> num, node |-> node, angle |-> angle, connection |-> <<>>,
     sentinel |-> TRUE]

\* Connection::new
Connection_new(neighbor, dist, threshold) ==
    [neighbor |-> neighbor, distance |-> dist, threshold |-> threshold]

---------------------------------------------------------------------------
(* find_origin *)

\* the inner loop of find_origin over the points of one flyzone
RECURSIVE ScanPoints(_, _)
ScanPoints(pts, acc) ==
    IF pts = <<>> THEN acc
    ELSE LET p == Head(pts)
             lat1 == IF p.lat < acc.min_lat THEN p.lat ELSE acc.min_lat
             lon1 == IF p.lon < acc.min_lon THEN p.lon ELSE acc.min_lon
             lon2 == IF p.lon > acc.max_lon THEN p.lon ELSE acc.max_lon
         IN  ScanPoints(Tail(pts), [acc EXCEPT !.min_lat = lat1, !.min_lon = lon1,
                                                !.max_lon = lon2])

\* the outer loop of find_origin; ok = FALSE when an assertion fails
RECURSIVE ScanZones(_, _)
ScanZones(zs, acc) ==
    IF zs = <<>> THEN acc
    ELSE IF ~(Len(Head(zs)) > 2) THEN [acc EXCEPT !.ok = FALSE]
    ELSE LET a1 == ScanPoints(Head(zs), acc)
             lon == IF a1.max_lon - a1.min_lon > MAX_RADIAN THEN a1.max_lon
                    ELSE a1.min_lon
         IN  ScanZones(Tail(zs), [a1 EXCEPT !.lon = lon])

\* find_origin without its two assertions
find_origin_unchecked(zs) ==
    LET acc0 == [ok |-> TRUE, min_lat |-> MAX_RADIAN, min_lon |-> MAX_RADIAN,
                 max_lon |-> 0, lon |-> MAX_RADIAN]
        r == ScanPoints(IF zs = <<>> THEN <<>> ELSE Head(zs), acc0)
    IN  [ok |-> TRUE, lat |-> r.min_lat, lon |-> r.min_lon]

find_origin(zs) ==
    LET acc0 == [ok |-> TRUE, min_lat |-> MAX_RADIAN, min_lon |-> MAX_RADIAN,
                 max_lon |-> 0, lon |-> MAX_RADIAN]
    IN  IF ~(Len(zs) > 0) THEN [ok |-> FALSE, lat |-> 0, lon |-> 0]
        ELSE LET r == ScanZones(zs, acc0)
             IN  [ok |-> r.ok, lat |-> r.min_lat, lon |-> r.lon]

---------------------------------------------------------------------------
(* valid_path *)

\* the test of the segment a-b against the edges of the flyzones: every pair
\* of consecutive points, and the closing last -> first edge
hits_flyzone(a, b) ==
    \E z \in 1..Len(flyzones) : \E k \in 1..Len(flyzones[z]) :
        intersect(a, b, from_location(flyzones[z][k], origin),
                  from_location(flyzones[z][(k % Len(flyzones[z])) + 1], origin))

\* the obstacles whose circle the segment crosses at two points
Crossed(a, b) ==
    {k \in 1..Len(obstacles) :
        perpendicular_intersect(origin, a, b, obstacles[k]) = <<TRUE, TRUE>>}

\* the loop over the obstacles: the greatest height among the crossed ones
RECURSIVE ObstacleLoop(_, _, _, _)
ObstacleLoop(a, b, k, max_height) ==
    IF k > Len(obstacles) THEN max_height
    ELSE IF perpendicular_intersect(origin, a, b, obstacles[k]) = <<TRUE, TRUE>>
              /\ obstacles[k].height > max_height
         THEN ObstacleLoop(a, b, k + 1, obstacles[k].height)
         ELSE ObstacleLoop(a, b, k + 1, max_height)

Invalid == [kind |-> "Invalid", h |-> 0]
Flyover(h) == [kind |-> "Flyover", h |-> h]

\* valid_path with the disabled line of the obstacle loop enabled: a crossed
\* obstacle invalidates the path
valid_path_no_flyover(a, b) ==
    IF hits_flyzone(a, b) THEN Invalid
    ELSE IF Crossed(a, b) # {} THEN Invalid
    ELSE Flyover(0)

valid_path(a, b) ==
    IF hits_flyzone(a, b) THEN Invalid
    ELSE Flyover(ObstacleLoop(a, b, 1, 0))

---------------------------------------------------------------------------
(* find_path *)

\* reference_angles with theta = 0 taking the first branch
reference_angles_from_zero(theta) ==
    IF theta >= 0 THEN <<theta, theta + PI>>
    ELSE <<theta + 2 * PI, theta + PI>>

\* the two reference angles derived from theta
reference_angles(theta) ==
    IF theta > 0 THEN <<theta, theta + PI>>
    ELSE <<theta + 2 * PI, theta + PI>>

\* inner_tangents_exist with touching circles taken as apart
inner_tangents_exist_touching(r1, r2, dist) ==
    r1 # 0 /\ r2 # 0 /\ dist >= (r1 + r2) * Scale

\* the branch of find_path that adds the inner tangents
inner_tangents_exist(r1, r2, dist) ==
    r1 # 0 /\ r2 # 0 /\ dist > (r1 + r2) * Scale

\* the candidates that valid_path accepts, as (alpha, beta, distance, threshold)
RECURSIVE Validate(_, _, _)
Validate(a, b, candidates) ==
    IF candidates = <<>> THEN <<>>
    ELSE LET c == Head(candidates)
             p1 == to_point(a, c[1])
             p2 == to_point(b, c[2])
             v == valid_path(p1, p2)
             rest == Validate(a, b, Tail(candidates))
         IN  IF v.kind = "Invalid" THEN rest
             ELSE <<<<c[1], c[2], distance(p1, p2), v.h>>>> \o rest

find_path(a, b) ==
    LET c1 == a.origin
        c2 == b.origin
        r1 == a.radius
        r2 == b.radius
        dist == distance(c1, c2)
        theta == Atan2(c2.y - c1.y, c2.x - c1.x)
        ref == reference_angles(theta)
        theta1 == ref[1]
        theta2 == ref[2]
        gamma1 == Acos(Abs(r1 + r2) * Scale, dist)
        g2 == Acos(Abs(r1 - r2) * Scale, dist)
        gamma2 == IF r2 > r1 THEN FSub(PI, g2) ELSE g2
        outer == << <<normalize_angle(TRUE, FSub(theta1, gamma2)),
                      normalize_angle(TRUE, FSub(theta2 + PI, gamma2))>>,
                    <<normalize_angle(FALSE, FAdd(theta1 - 2 * PI, gamma2)),
                      normalize_angle(FALSE, FAdd(theta2 - 3 * PI, gamma2))>> >>
        inner == << <<normalize_angle(TRUE, FSub(theta1, gamma1)),
                      normalize_angle(FALSE, FSub(theta2 - 2 * PI, gamma1))>>,
                    <<normalize_angle(FALSE, FAdd(theta1 - 2 * PI, gamma1)),
                      normalize_angle(TRUE, FAdd(theta2, gamma1))>> >>
        r1s == r1 * Scale
        r2s == r2 * Scale
        theta_s == Acos(r1s * r1s + dist * dist - r2s * r2s, 2 * r1s * dist)
        phi_s == Acos(r2s * r2s + dist * dist - r1s * r1s, 2 * r2s * dist)
        pairs == << <<theta_s, FSub(PI, phi_s)>>,
                    <<FNeg(theta_s), FAdd(PI, phi_s)>>,
                    <<FAdd(0 - 2 * PI, theta_s), FAdd(0 - PI, phi_s)>>,
                    <<FSub(2 * PI, theta_s), FSub(0 - PI, phi_s)>> >>
        tangent == inner_tangents_exist(r1, r2, dist)
        candidates == IF tangent THEN outer \o inner ELSE outer
    IN  [dist |-> dist, theta |-> theta, theta1 |-> theta1, theta2 |-> theta2,
         candidates |-> candidates,
         n_inner |-> IF tangent THEN 2 ELSE 0,
         sentinels |-> IF tangent THEN <<>> ELSE <<pairs>>,
         paths |-> Validate(a, b, candidates)]

---------------------------------------------------------------------------
(* Graph assembly.  A graph under construction is [vertices, inserted, num]: *)
(* the vertices in creation order, the insert_vertex calls in order (the     *)
(* ring inserted into and the position of the vertex), and the counter       *)
(* num_vertices.                                                             *)

\* Node::insert_vertex on node n with the vertex at position p
Inserted(n, p) == [ring |-> n, vertex |-> p]

\* the ring of a node: its vertices in insertion order
ring(n) == SelectSeq(inserted, LAMBDA e : e.ring = n)

\* insert_edge with both vertices created on node i
insert_edge_same_node(g, ni, nj, path) ==
    LET pv == Len(g.vertices) + 1
        v == Vertex_new(g.num, ni, path[2], <<>>)
        edge == Connection_new(pv, path[3], path[4])
        u == Vertex_new(g.num + 1, ni, path[1], <<edge>>)
    IN  [vertices |-> g.vertices \o <<v, u>>,
         inserted |-> g.inserted \o <<Inserted(ni, pv + 1), Inserted(ni, pv)>>,
         num |-> g.num + 2]

\* insert_edge: v on node j is created first, then u on node i owning the
\* connection to v; u is inserted into its ring first, then v
insert_edge(g, ni, nj, path) ==
    LET pv == Len(g.vertices) + 1
        v == Vertex_new(g.num, nj, path[2], <<>>)
        edge == Connection_new(pv, path[3], path[4])
        u == Vertex_new(g.num + 1, ni, path[1], <<edge>>)
    IN  [vertices |-> g.vertices \o <<v, u>>,
         inserted |-> g.inserted \o <<Inserted(ni, pv + 1), Inserted(nj, pv)>>,
         num |-> g.num + 2]

\* the reciprocal path with the angles reversed but not exchanged
reciprocal_not_exchanged(path) ==
    <<reverse_polarity(path[1]), reverse_polarity(path[2]), path[3], path[4]>>

\* the path of the reciprocal edge: (beta, alpha) = (reverse_polarity(path.0),
\* reverse_polarity(path.1)); path.0 = alpha; path.1 = beta
reciprocal(path) ==
    LET beta == reverse_polarity(path[1])
        alpha == reverse_polarity(path[2])
    IN  <<alpha, beta, path[3], path[4]>>

\* the loop of build_graph over the paths of one node pair
RECURSIVE insert_paths(_, _, _, _)
insert_paths(g, ni, nj, paths) ==
    IF paths = <<>> THEN g
    ELSE LET g1 == insert_edge(g, ni, nj, Head(paths))
             g2 == insert_edge(g1, nj, ni, reciprocal(Head(paths)))
         IN  insert_paths(g2, ni, nj, Tail(paths))

\* the loop of build_graph over the sentinel pairs of one node pair
RECURSIVE insert_sentinels(_, _, _, _)
insert_sentinels(g, ni, nj, pairs) ==
    IF pairs = <<>> THEN g
    ELSE LET pa == Len(g.vertices) + 1
             a == Vertex_new_sentinel(g.num, ni, Head(pairs)[1])
             b == Vertex_new_sentinel(g.num + 1, nj, Head(pairs)[2])
             g1 == [vertices |-> g.vertices \o <<a, b>>,
                    inserted |-> g.inserted \o <<Inserted(ni, pa), Inserted(nj, pa + 1)>>,
                    num |-> g.num + 2]
         IN  insert_sentinels(g1, ni, nj, Tail(pairs))

---------------------------------------------------------------------------
(* populate_nodes *)

\* the two ring angles at which the flyzone edge p-q cuts the node's circle
edge_sentinel_angles(node, p, q) ==
    LET R == node.radius * Scale
        c == node.origin
    IN  IF circle_hits(c, R, p, q) # <<TRUE, TRUE>> THEN <<>>
        ELSE LET d == Abs(Cross(p, q, c)) \div distance(p, q)
                 phi == IF Cross(p, q, c) > 0 THEN Atan2(0 - (q.x - p.x), q.y - p.y)
                        ELSE Atan2(q.x - p.x, 0 - (q.y - p.y))
                 half == Acos(d, R)
             IN  <<normalize_angle(TRUE, FSub(phi, half)),
                   normalize_angle(TRUE, FAdd(phi, half))>>

RECURSIVE zone_sentinel_angles(_, _, _, _)
zone_sentinel_angles(node, zone, org, k) ==
    IF k > Len(zone) THEN <<>>
    ELSE edge_sentinel_angles(node, from_location(zone[k], org),
                              from_location(zone[(k % Len(zone)) + 1], org))
         \o zone_sentinel_angles(node, zone, org, k + 1)

\* insert_flyzone_sentinel: the ring angles where a flyzone edge cuts the node
RECURSIVE flyzone_sentinel_angles(_, _, _)
flyzone_sentinel_angles(node, zones, org) ==
    IF zones = <<>> THEN <<>>
    ELSE zone_sentinel_angles(node, Head(zones), org, 1)
         \o flyzone_sentinel_angles(node, Tail(zones), org)

RECURSIVE insert_flyzone_sentinel(_, _, _)
insert_flyzone_sentinel(g, n, angles) ==
    IF angles = <<>> THEN g
    ELSE LET s == Vertex_new_sentinel(g.num, n, Head(angles))
             g1 == [vertices |-> g.vertices \o <<s>>,
                    inserted |-> g.inserted \o <<Inserted(n, Len(g.vertices) + 1)>>,
                    num |-> g.num + 1]
         IN  insert_flyzone_sentinel(g1, n, Tail(angles))

\* virtualize_flyzone: the nodes standing for the concave sections of a
\* flyzone; a convex flyzone has none
virtualize_flyzone(zone) == <<>>

RECURSIVE virtualized(_)
virtualized(zones) ==
    IF zones = <<>> THEN <<>>
    ELSE virtualize_flyzone(Head(zones)) \o virtualized(Tail(zones))

\* the two loops of populate_nodes: a node for every obstacle, then the
\* virtual nodes of every flyzone
populated_nodes(org) ==
    [k \in 1..Len(obstacles) |-> from_obstacle(obstacles[k], org, buffer)]
    \o virtualized(flyzones)

RECURSIVE populate_loop(_, _, _, _)
populate_loop(g, ns, org, k) ==
    IF k > Len(ns) THEN g
    ELSE populate_loop(
             insert_flyzone_sentinel(g, k, flyzone_sentinel_angles(ns[k], flyzones, org)),
             ns, org, k + 1)


---------------------------------------------------------------------------
(* Configurations *)

Loc(lat, lon) == [lat |-> lat, lon |-> lon]

\* Location::from_radians
from_radians(lat, lon, alt) == [lat |-> lat, lon |-> lon, alt |-> alt]
Obs(lat, lon, radius, height) ==
    [lat |-> lat, lon |-> lon, radius |-> radius, height |-> height]

\* flyzone polygons, all convex and counter-clockwise
Square == <<Loc(0, 0), Loc(0, 10), Loc(6, 10), Loc(6, 0)>>
Triangle == <<Loc(0, 0), Loc(0, 10), Loc(6, 5)>>
Wide == <<Loc(0, -11), Loc(0, 11), Loc(6, 11), Loc(6, -11)>>
West == <<Loc(0, -9), Loc(0, -1), Loc(6, -1), Loc(6, -9)>>
Line == <<Loc(0, 0), Loc(0, 10)>>

FlyzoneConfigs ==
    {<<>>, <<Line>>, <<Square, Line>>, <<Square>>, <<Wide>>, <<West>>,
     <<Square, Triangle>>}

ObstaclePool ==
    {Obs(3, 3, 1, 1), Obs(3, 7, 1, 2), Obs(3, 6, 0, 0), Obs(3, 3, 3, 2),
     Obs(1, 5, 1, 1), Obs(3, 5, 1, 2)}

\* the lists of distinct obstacles of the pool, up to MaxObstacles long
ObstacleLists ==
    UNION {{s \in [1..n -> ObstaclePool] : \A a, b \in 1..n : a # b => s[a] # s[b]} :
              n \in 0..MaxObstacles}

\* end points of the segments valid_path is asked about
ProbeLocations == {Loc(3, 1), Loc(3, 9), Loc(5, 1), Loc(5, 9), Loc(8, 1), Loc(8, 9)}

NoCall == [called |-> FALSE]

---------------------------------------------------------------------------
(* The state machine *)

Init ==
    /\ flyzones \in FlyzoneConfigs
    /\ obstacles \in ObstacleLists
    /\ buffer \in {0, 1}
    /\ origin = from_radians(0, 0, 0)
    /\ nodes = <<>>
    /\ vertices = <<>>
    /\ inserted = <<>>
    /\ num_vertices = 0
    /\ pc = "idle"
    /\ i = 0
    /\ j = 0
    /\ builds = 0
    /\ start_count = 0
    /\ fp = NoCall
    /\ vp = NoCall

\* build_graph whose find_origin fails an assertion: populate_nodes has cleared
\* the nodes and the panic ends the call
BuildAbort ==
    /\ pc \in {"idle", "done"}
    /\ builds < MaxBuilds
    /\ ~find_origin(flyzones).ok
    /\ builds' = builds + 1
    /\ start_count' = num_vertices
    /\ nodes' = <<>>
    /\ vertices' = <<>>
    /\ inserted' = <<>>
    /\ pc' = "panicked"
    /\ fp' = NoCall
    /\ UNCHANGED <<flyzones, obstacles, buffer, origin, num_vertices, i, j, vp>>

\* build_graph up to the end of populate_nodes
PopulateNodes ==
    /\ pc \in {"idle", "done"}
    /\ builds < MaxBuilds
    /\ find_origin(flyzones).ok
    /\ \E o \in {find_origin(flyzones)} :
       \E org \in {from_radians(o.lat, o.lon, 0)} :
       \E ns \in {populated_nodes(org)} :
       \E g \in {populate_loop([vertices |-> <<>>, inserted |-> <<>>,
                                 num |-> num_vertices], ns, org, 1)} :
           /\ origin' = org
           /\ nodes' = ns
           /\ vertices' = g.vertices
           /\ inserted' = g.inserted
           /\ num_vertices' = g.num
    /\ builds' = builds + 1
    /\ start_count' = num_vertices
    /\ pc' = "pairs"
    /\ i' = 1
    /\ j' = 2
    /\ fp' = NoCall
    /\ UNCHANGED <<flyzones, obstacles, buffer, vp>>

\* one iteration of the loops of build_graph: the node pair (i, j)
ProcessPair ==
    /\ pc = "pairs"
    /\ j <= Len(nodes)
    /\ \E r \in {find_path(nodes[i], nodes[j])} :
       \E g1 \in {insert_paths([vertices |-> vertices, inserted |-> inserted,
                                 num |-> num_vertices], i, j, r.paths)} :
       \E g2 \in {IF r.sentinels # <<>>
                   THEN insert_sentinels(g1, i, j, r.sentinels[1])
                   ELSE g1} :
           /\ vertices' = g2.vertices
           /\ inserted' = g2.inserted
           /\ num_vertices' = g2.num
           /\ fp' = [called |-> TRUE, i |-> i, j |-> j, base |-> Len(vertices),
                     added |-> Len(g2.vertices) - Len(vertices),
                     dist |-> r.dist, theta |-> r.theta, theta1 |-> r.theta1,
                     theta2 |-> r.theta2, candidates |-> r.candidates,
                     n_inner |-> r.n_inner, sentinels |-> r.sentinels,
                     paths |-> r.paths]
    /\ IF j + 1 <= Len(nodes)
       THEN i' = i /\ j' = j + 1
       ELSE i' = i + 1 /\ j' = i + 2
    /\ UNCHANGED <<flyzones, obstacles, buffer, origin, nodes, pc, builds,
                   start_count, vp>>

\* the loops of build_graph are over
Finish ==
    /\ pc = "pairs"
    /\ j > Len(nodes)
    /\ pc' = "done"
    /\ UNCHANGED <<flyzones, obstacles, buffer, origin, nodes, vertices, inserted,
                   num_vertices, i, j, builds, start_count, fp, vp>>

\* a call of valid_path on the segment between two locations (the function
\* reads the Pathfinder only, so one call per configuration shows them all)
ValidPathCall ==
    /\ pc = "pairs"
    /\ ~vp.called
    /\ \E la, lb \in ProbeLocations :
          \E a \in {from_location(la, origin)} :
          \E b \in {from_location(lb, origin)} :
              vp' = [called |-> TRUE, a |-> a, b |-> b, result |-> valid_path(a, b)]
    /\ UNCHANGED <<flyzones, obstacles, buffer, origin, nodes, vertices, inserted,
                   num_vertices, pc, i, j, builds, start_count, fp>>

Next == BuildAbort \/ PopulateNodes \/ ProcessPair \/ Finish

Spec == Init /\ [][Next]_vars

NextValid == BuildAbort \/ PopulateNodes \/ ValidPathCall

SpecValid == Init /\ [][NextValid]_vars


---------------------------------------------------------------------------
(* Properties *)

Built == pc \in {"pairs", "done"}

SetMax(S) == CHOOSE m \in S : \A n \in S : n <= m
SetMin(S) == CHOOSE m \in S : \A n \in S : m <= n

\* C1: the vertices of a build have pairwise distinct indices, the first
\* vertex created has index 0, and the indices follow the order in which the
\* vertices are inserted into their rings
C1_IndicesFollowInsertion ==
    /\ \A p, q \in 1..Len(vertices) : p # q => vertices[p].index # vertices[q].index
    /\ vertices # <<>> => vertices[1].index = 0
    /\ \A k \in 1..Len(inserted) : vertices[inserted[k].vertex].index = k - 1

\* C2: a vertex owning a Connection sits on (and in the ring of) a node other
\* than the node (and ring) of the Connection's neighbor
C2_ConnectionLeavesNode ==
    \A p \in 1..Len(vertices) :
        vertices[p].connection # <<>> =>
            LET q == vertices[p].connection[1].neighbor
            IN  /\ q \in 1..Len(vertices)
                /\ vertices[q].node # vertices[p].node
                /\ \E e \in 1..Len(inserted) :
                       inserted[e] = Inserted(vertices[p].node, p)
                /\ \E e \in 1..Len(inserted) :
                       inserted[e] = Inserted(vertices[q].node, q)
                /\ \A e \in 1..Len(inserted) :
                       inserted[e].vertex \in {p, q} =>
                           inserted[e].ring = vertices[inserted[e].vertex].node

C2_Witness ==
    /\ pc = "done"
    /\ \E p \in 1..Len(vertices) :
           /\ vertices[p].connection # <<>>
           /\ \E e \in 1..Len(ring(vertices[p].node)) :
                  ring(vertices[p].node)[e].vertex = p

\* C3: every accepted tangent (alpha, beta, distance, threshold) of the pair
\* (i, j) adds four vertices: the edge i -> j from angle alpha to angle beta and
\* the edge j -> i from reverse_polarity(beta) to reverse_polarity(alpha), both
\* with the tangent's distance and threshold
C3_ReciprocalEdges ==
    fp.called =>
        /\ fp.i < fp.j
        /\ fp.added = 4 * Len(fp.paths)
                      + (IF fp.sentinels = <<>> THEN 0 ELSE 2 * Len(fp.sentinels[1]))
        /\ \A k \in 1..Len(fp.paths) :
               LET b == fp.base + 4 * (k - 1)
                   t == fp.paths[k]
               IN  /\ vertices[b + 1] =
                          [index |-> vertices[b + 1].index, node |-> fp.j, angle |-> t[2],
                           connection |-> <<>>, sentinel |-> FALSE]
                   /\ vertices[b + 2] =
                          [index |-> vertices[b + 2].index, node |-> fp.i, angle |-> t[1],
                           connection |-> <<[neighbor |-> b + 1, distance |-> t[3],
                                             threshold |-> t[4]]>>,
                           sentinel |-> FALSE]
                   /\ vertices[b + 3] =
                          [index |-> vertices[b + 3].index, node |-> fp.i,
                           angle |-> reverse_polarity(t[1]),
                           connection |-> <<>>, sentinel |-> FALSE]
                   /\ vertices[b + 4] =
                          [index |-> vertices[b + 4].index, node |-> fp.j,
                           angle |-> reverse_polarity(t[2]),
                           connection |-> <<[neighbor |-> b + 3, distance |-> t[3],
                                             threshold |-> t[4]]>>,
                           sentinel |-> FALSE]
                   /\ \A m \in 1..4 : \E e \in 1..Len(inserted) :
                          inserted[e] = Inserted(vertices[b + m].node, b + m)

C3_Witness ==
    /\ fp.called
    /\ \E k \in 1..Len(fp.paths) :
           /\ ~IsNaN(fp.paths[k][1])
           /\ fp.paths[k][1] # fp.paths[k][2]
           /\ fp.paths[k][4] > 0

\* the two nodes of the last find_path call, from the configuration
NodeA == obstacles[fp.i]
NodeB == obstacles[fp.j]
CentersApart2 ==
    (NodeB.lat - NodeA.lat) * (NodeB.lat - NodeA.lat)
    + (NodeB.lon - NodeA.lon) * (NodeB.lon - NodeA.lon)
RadiusSum == NodeA.radius + NodeB.radius + 2 * buffer

\* C4: for non-coincident nodes, find_path makes 4 candidates (2 inner) and no
\* sentinel list when dist > r1 + r2 and both radii are nonzero, and otherwise
\* 2 candidates, no inner one, and at most 4 sentinel pairs
C4_InnerXorSentinels ==
    (fp.called /\ CentersApart2 > 0) =>
        IF /\ CentersApart2 > RadiusSum * RadiusSum
           /\ NodeA.radius + buffer # 0
           /\ NodeB.radius + buffer # 0
        THEN Len(fp.candidates) = 4 /\ fp.n_inner = 2 /\ fp.sentinels = <<>>
        ELSE /\ Len(fp.candidates) = 2
             /\ fp.n_inner = 0
             /\ fp.sentinels # <<>>
             /\ Len(fp.sentinels[1]) <= 4

\* the circle of radius 3 and the point obstacle at distance 3 from its center
C4_Witness ==
    /\ fp.called
    /\ buffer = 0
    /\ NodeA = Obs(3, 3, 3, 2)
    /\ NodeB = Obs(3, 6, 0, 0)
    /\ fp.sentinels # <<>>
    /\ fp.n_inner = 0

InsideOrOn(p, zone) ==
    \A k \in 1..Len(zone) :
        Cross(from_location(zone[k], origin),
              from_location(zone[(k % Len(zone)) + 1], origin), p) >= 0

StrictlyInside(p, zone) ==
    \A k \in 1..Len(zone) :
        Cross(from_location(zone[k], origin),
              from_location(zone[(k % Len(zone)) + 1], origin), p) > 0

\* C6: a segment outside every flyzone is Invalid, and a segment inside all
\* flyzones is not Invalid
C6_OutsideInvalidInsideNot ==
    vp.called =>
        /\ (/\ ~hits_flyzone(vp.a, vp.b)
            /\ \A z \in 1..Len(flyzones) :
                  ~InsideOrOn(vp.a, flyzones[z]) /\ ~InsideOrOn(vp.b, flyzones[z]))
           => vp.result = Invalid
        /\ (\A z \in 1..Len(flyzones) :
                StrictlyInside(vp.a, flyzones[z]) /\ StrictlyInside(vp.b, flyzones[z]))
           => vp.result # Invalid

InsufficientBoundary ==
    Len(flyzones) = 0 \/ \E z \in 1..Len(flyzones) : Len(flyzones[z]) < 3

\* C7: build_graph with no flyzone, or with a flyzone of fewer than 3 points,
\* aborts: no node, no vertex and no edge results from the call
C7_InsufficientBoundaryAborts ==
    (builds > 0 /\ InsufficientBoundary) =>
        /\ pc = "panicked"
        /\ nodes = <<>>
        /\ vertices = <<>>
        /\ inserted = <<>>
        /\ num_vertices = start_count
        /\ ~fp.called

C7_Witness ==
    /\ pc = "panicked"
    /\ obstacles # <<>>
    /\ flyzones = <<Square, Line>>

\* C8: find_path on nodes with the same center gives no tangent and no
\* sentinel pair, and build_graph inserts no vertex for the pair
C8_CoincidentCentersRejected ==
    (fp.called /\ fp.dist = 0) =>
        /\ fp.paths = <<>>
        /\ fp.sentinels = <<>>
        /\ fp.added = 0

BoundaryPoints ==
    UNION {{flyzones[z][k] : k \in 1..Len(flyzones[z])} : z \in 1..Len(flyzones)}

\* C9: the origin is (least latitude, reference longitude, 0), the reference
\* longitude being the least longitude unless the span of the longitudes
\* exceeds pi, and then the greatest
C9_OriginReferenceLongitude ==
    Built =>
        LET lats == {q.lat : q \in BoundaryPoints}
            lons == {q.lon : q \in BoundaryPoints}
        IN  origin = from_radians(SetMin(lats),
                                  IF SetMax(lons) - SetMin(lons) > PI THEN SetMax(lons)
                                  ELSE SetMin(lons),
                                  0)

\* C10 as stated: theta1 is theta normalized into [0, 2 pi) and theta2 is
\* theta1 + pi
C10_Normalized ==
    (fp.called /\ fp.dist > 0) =>
        /\ fp.theta1 = fp.theta % (2 * PI)
        /\ fp.theta2 = fp.theta1 + PI

\* C10 amended: theta1 is theta brought into (0, 2 pi] (2 pi for theta = 0),
\* and theta2 is theta + pi, in (0, 2 pi]: theta1 + pi for theta > 0 and
\* theta1 - pi otherwise
C10_ReferenceAngles ==
    (fp.called /\ fp.dist > 0) =>
        /\ fp.theta1 \in 1..(2 * PI)
        /\ (fp.theta1 - fp.theta) % (2 * PI) = 0
        /\ fp.theta2 \in 1..(2 * PI)
        /\ fp.theta2 = fp.theta + PI
        /\ fp.theta2 = IF fp.theta > 0 THEN fp.theta1 + PI ELSE fp.theta1 - PI
        /\ fp.theta = 0 => (fp.theta1 = 2 * PI /\ fp.theta2 = PI)

C10_Witness ==
    /\ fp.called
    /\ fp.dist > 0
    /\ fp.theta = 0
    /\ fp.theta1 = 2 * PI
    /\ fp.theta2 = PI


===========================================================================
